---------------------------- MODULE Spec2Model ----------------------------
(***************************************************************************)
(* Model of coaching_platform.py: the record filter apply_filters and the  *)
(* record store (a remote spreadsheet, or the tables kept in the Streamlit *)
(* session when the spreadsheet cannot be reached), with the signup,       *)
(* login, Add Client and check-in handlers that read and append to it.     *)
(*                                                                         *)
(* Two specifications:                                                     *)
(*   FilterSpec  apply_filters as a pure function: Init draws its          *)
(*               arguments, CallFilter applies it.                         *)
(*   Spec        the application: one action per user interaction, which   *)
(*               is one execution of the script from top to bottom.        *)
(***************************************************************************)
EXTENDS Integers, Sequences, FiniteSets, TLC

VARIABLES
    \* ---- apply_filters (FilterSpec) ----
    entries,        \* the argument `entries`: a sequence of records
    start_date,     \* the argument `start_date` (NoDate for None)
    end_date,       \* the argument `end_date` (NoDate for None)
    workout,        \* the argument `workout` (None for None)
    filtered,       \* the value returned
    called,         \* whether apply_filters has returned
    \* ---- the application (Spec) ----
    gs_ok,          \* the module global gs_ok of the latest execution
    remote,         \* the spreadsheet: worksheet title -> rows (lists of cells)
    session,        \* st.session_state's local_* keys -> list of dicts
    role,           \* st.session_state.role
    user,           \* st.session_state.user
    admin,          \* st.session_state.admin
    rerun_flag,     \* st.session_state.rerun_flag
    accesses,       \* the store accesses of the latest execution
    event           \* the button pressed in the latest execution and its outcome

filterVars == <<entries, start_date, end_date, workout, filtered, called>>
appVars == <<gs_ok, remote, session, role, user, admin, rerun_flag, accesses, event>>
vars == <<entries, start_date, end_date, workout, filtered, called,
          gs_ok, remote, session, role, user, admin, rerun_flag, accesses, event>>

(***************************************************************************)
(* Python values.  Strings are strings; None is a value of its own.        *)
(***************************************************************************)
None == "<None>"

\* Python truth of a string-or-None value: None and "" are false.
Truthy(v) == v \notin {None, ""}

\* Python `a or b`.
Or(a, b) == IF Truthy(a) THEN a ELSE b

\* dict.get(k): None when the key is missing.
Get(e, k) == IF k \in DOMAIN e THEN e[k] ELSE None

\* start_date=None / end_date=None.  Dates are day ordinals counted from
\* 2024-01-01 = 1, so 0 is no date.
NoDate == 0

(***************************************************************************)
(* dateutil's parser.parse(ts).date() on the strings of the model: the day *)
(* ordinal of the date part (a time of day is dropped); any other string   *)
(* raises.                                                                 *)
(***************************************************************************)
DateOf ==
    ("2024-01-01" :> 1) @@ ("2024-01-05" :> 5) @@ ("2024-01-10" :> 10) @@
    ("2024-01-05T09:30:00.250000" :> 5) @@ ("2024-01-10T23:59:59.000000" :> 10)

CanParse(ts) == ts \in DOMAIN DateOf

(***************************************************************************)
(* apply_filters, lines 157-169.                                           *)
(***************************************************************************)
\* Mutant: the lower bound made exclusive.
KeepsExclusiveStart(e, start, end, wo) ==
    LET ts == Or(Or(Get(e, "Timestamp"), Get(e, "Date")), Get(e, "WeekStartDate"))
        dateDrop == /\ Truthy(ts)
                    /\ CanParse(ts)
                    /\ \/ start # NoDate /\ DateOf[ts] <= start
                       \/ end # NoDate /\ DateOf[ts] > end
        woDrop == /\ Truthy(wo)
                  /\ Truthy(Get(e, "Workout"))
                  /\ wo # "All"
                  /\ Get(e, "Workout") # wo
    IN  ~dateDrop /\ ~woDrop

\* Mutant: a value that does not parse falls back to the next field.
KeepsParseFallback(e, start, end, wo) ==
    LET P(k) == Truthy(Get(e, k)) /\ CanParse(Get(e, k))
        ts == IF P("Timestamp") THEN e["Timestamp"]
              ELSE IF P("Date") THEN e["Date"]
              ELSE IF P("WeekStartDate") THEN e["WeekStartDate"] ELSE None
        dateDrop == /\ Truthy(ts)
                    /\ \/ start # NoDate /\ DateOf[ts] < start
                       \/ end # NoDate /\ DateOf[ts] > end
        woDrop == /\ Truthy(wo)
                  /\ Truthy(Get(e, "Workout"))
                  /\ wo # "All"
                  /\ Get(e, "Workout") # wo
    IN  ~dateDrop /\ ~woDrop

\* Mutant: the sentinel "All" is compared like any other value.
KeepsNoSentinel(e, start, end, wo) ==
    LET ts == Or(Or(Get(e, "Timestamp"), Get(e, "Date")), Get(e, "WeekStartDate"))
        dateDrop == /\ Truthy(ts)
                    /\ CanParse(ts)
                    /\ \/ start # NoDate /\ DateOf[ts] < start
                       \/ end # NoDate /\ DateOf[ts] > end
        woDrop == /\ Truthy(wo)
                  /\ Truthy(Get(e, "Workout"))
                  /\ Get(e, "Workout") # wo
    IN  ~dateDrop /\ ~woDrop

\* One pass of the loop body: TRUE when e reaches filtered.append(e), FALSE
\* when a `continue` is taken.
Keeps(e, start, end, wo) ==
    LET ts == Or(Or(Get(e, "Timestamp"), Get(e, "Date")), Get(e, "WeekStartDate"))
        \* lines 161-166: inside try; a parse error skips both tests
        dateDrop == /\ Truthy(ts)
                    /\ CanParse(ts)
                    /\ \/ start # NoDate /\ DateOf[ts] < start
                       \/ end # NoDate /\ DateOf[ts] > end
        \* line 167
        woDrop == /\ Truthy(wo)
                  /\ Truthy(Get(e, "Workout"))
                  /\ wo # "All"
                  /\ Get(e, "Workout") # wo
    IN  ~dateDrop /\ ~woDrop

RECURSIVE FilterLoop(_, _, _, _, _)
FilterLoop(es, acc, start, end, wo) ==
    IF es = <<>> THEN acc
    ELSE FilterLoop(Tail(es),
                    IF Keeps(Head(es), start, end, wo) THEN Append(acc, Head(es)) ELSE acc,
                    start, end, wo)

\* Mutant: kept records are inserted at the front of the result.
RECURSIVE FilterLoopFront(_, _, _, _, _)
FilterLoopFront(es, acc, start, end, wo) ==
    IF es = <<>> THEN acc
    ELSE FilterLoopFront(Tail(es),
                    IF Keeps(Head(es), start, end, wo) THEN <<Head(es)>> \o acc ELSE acc,
                    start, end, wo)

apply_filters_front(es, start, end, wo) == FilterLoopFront(es, <<>>, start, end, wo)

apply_filters(es, start, end, wo) == FilterLoop(es, <<>>, start, end, wo)


(***************************************************************************)
(* The arguments apply_filters is called with.                             *)
(***************************************************************************)
\* Longest list of records passed to apply_filters.
MaxLen == 2

TimestampValues == {None, "", "n/a", "2024-01-05T09:30:00.250000"}
DateValues == {None, "2024-01-10"}
WeekStartValues == {None, "2024-01-01"}
WorkoutValues == {None, "", "Squat", "Run"}

\* A record of any table, seen through the four keys apply_filters reads.
Records ==
    [Timestamp : TimestampValues, Date : DateValues,
     WeekStartDate : WeekStartValues, Workout : WorkoutValues]

\* The records that longer lists are made of.
CoreRecords ==
    {r \in Records : /\ r.WeekStartDate = None
                     /\ r.Timestamp \in {None, "2024-01-05T09:30:00.250000"}
                     /\ r.Workout # ""}

SeqsUpTo(S, n) == UNION {[1..k -> S] : k \in 0..n}

\* Every single record, and every list of up to MaxLen core records.
InputLists == {<<r>> : r \in Records} \cup SeqsUpTo(CoreRecords, MaxLen)

DateArgs == {NoDate, 5, 10}
WorkoutArgs == {None, "", "All", "Squat"}

(***************************************************************************)
(* The record store.                                                       *)
(***************************************************************************)
ADMIN_PASS == "bigc_admin_pass"

\* A blank cell as pandas reads it back.
NaN == "<NaN>"

\* The worksheets of ensure_sheets, in the order it goes through them.
SheetOrder == <<"coaches", "clients", "workouts", "nutrition", "progress", "checkins">>

Tables == {SheetOrder[i] : i \in 1..Len(SheetOrder)}

NSheets == Len(SheetOrder)

Headers ==
    [coaches   |-> <<"Username", "Password", "ProfileImage">>,
     clients   |-> <<"Name", "AssignedCoach", "Username", "Password", "Goal", "ProfileImage">>,
     workouts  |-> <<"ClientUsername", "Workout", "Details", "Timestamp">>,
     nutrition |-> <<"ClientUsername", "Calories", "Protein", "Carbs", "Fats", "Timestamp">>,
     progress  |-> <<"ClientUsername", "Date", "Weight", "Notes", "Timestamp">>,
     checkins  |-> <<"ClientUsername", "WeekStartDate", "Feedback", "Submitted", "Timestamp", "ImagePath">>]

\* The st.session_state key of each table.
LocalKey ==
    [coaches   |-> "local_coaches",   clients  |-> "local_clients",
     workouts  |-> "local_workouts",  nutrition |-> "local_nutrition",
     progress  |-> "local_progress",  checkins |-> "local_checkins"]

LocalKeys == {LocalKey[t] : t \in Tables}

\* ensure_sheets, stopped by an exception after n worksheets (n = NSheets:
\* it returns).  A worksheet that is missing is added with its header row.
ensure_sheets(rem, n) ==
    [t \in DOMAIN rem \cup {SheetOrder[i] : i \in 1..n} |->
        IF t \in DOMAIN rem THEN rem[t] ELSE <<>>]

\* Mutant: every local table is reset on every execution.
init_local_storage_reset(ses) == [k \in LocalKeys |-> <<>>]

init_local_storage(ses) ==
    [k \in DOMAIN ses \cup LocalKeys |-> IF k \in DOMAIN ses THEN ses[k] ELSE <<>>]

\* One row of a worksheet as a dict keyed by the header row; a blank cell
\* reads back as NaN.
RowToRecord(t, row) ==
    [h \in {Headers[t][i] : i \in 1..Len(Headers[t])} |->
        LET i == CHOOSE j \in 1..Len(Headers[t]) : Headers[t][j] = h
        IN  IF i > Len(row) \/ row[i] = "" THEN NaN ELSE row[i]]

\* read_sheet: the data rows as dicts, all-blank rows dropped.
read_sheet(rem, t) ==
    LET rows == IF t \in DOMAIN rem THEN rem[t] ELSE <<>>
        recs == [i \in 1..Len(rows) |-> RowToRecord(t, rows[i])]
    IN  SelectSeq(recs, LAMBDA r : \E k \in DOMAIN r : r[k] # NaN)

append_row(rem, t, row) == [rem EXCEPT ![t] = Append(@, row)]

\* st.session_state[key] of a local table.
LocalRead(ses, key) == IF key \in DOMAIN ses THEN ses[key] ELSE <<>>

\* st.session_state[key].append(rec)
LocalAppend(ses, key, rec) == [ses EXCEPT ![key] = Append(@, rec)]

\* Mutant: the backend is chosen per table: the spreadsheet for the
\* worksheets that exist, the session for the others.
BackendPerTable(ok, rem, t) == IF t \in DOMAIN rem THEN "remote" ELSE "local"

\* `if gs_ok: ... else: ...` at every read and append.
Backend(ok, rem, t) == IF ok THEN "remote" ELSE "local"

Access(op, ok, rem, t) == [op |-> op, table |-> t, backend |-> Backend(ok, rem, t)]

\* Mutant: the clients are selected on their own Username.
get_clients_by_username(ok, rem, ses, coach_username) ==
    IF Backend(ok, rem, "clients") = "remote"
    THEN SelectSeq(read_sheet(rem, "clients"), LAMBDA r : r["Username"] = coach_username)
    ELSE SelectSeq(LocalRead(ses, "local_clients"),
                   LAMBDA c : Get(c, "Username") = coach_username)

get_clients_for_coach(ok, rem, ses, coach_username) ==
    IF Backend(ok, rem, "clients") = "remote"
    THEN SelectSeq(read_sheet(rem, "clients"), LAMBDA r : r["AssignedCoach"] = coach_username)
    ELSE SelectSeq(LocalRead(ses, "local_clients"),
                   LAMBDA c : Get(c, "AssignedCoach") = coach_username)

filter_df(ok, rem, ses, sheet_name, client_username) ==
    IF Backend(ok, rem, sheet_name) = "remote"
    THEN SelectSeq(read_sheet(rem, sheet_name), LAMBDA r : r["ClientUsername"] = client_username)
    ELSE SelectSeq(LocalRead(ses, LocalKey[sheet_name]),
                   LAMBDA r : r["ClientUsername"] = client_username)

LogTables == {"workouts", "nutrition", "progress", "checkins"}

get_client_data(ok, rem, ses, client_username) ==
    [t \in LogTables |-> filter_df(ok, rem, ses, t, client_username)]

(***************************************************************************)
(* One execution of the script.  Streamlit runs the script from its first  *)
(* line on every interaction; st.session_state and the spreadsheet are     *)
(* what lasts from one execution to the next.                              *)
(***************************************************************************)
\* Most rows the handlers append in one behaviour.
MaxRows == 2

Len0(f, k) == IF k \in DOMAIN f THEN Len(f[k]) ELSE 0

\* Rows appended so far (the coaches table is never appended to).
RowsStored ==
    Len0(remote, "clients") + Len0(remote, "workouts") + Len0(remote, "nutrition")
    + Len0(remote, "progress") + Len0(remote, "checkins")
    + Len0(session, "local_coaches") + Len0(session, "local_clients")
    + Len0(session, "local_workouts") + Len0(session, "local_nutrition")
    + Len0(session, "local_progress") + Len0(session, "local_checkins")

\* How far the connection gets: gs_auth raises (0 worksheets), ensure_sheets
\* raises after some worksheets, or it returns (all NSheets worksheets).
ConnOutcomes == {0, 2, NSheets}

\* The same without the exception part-way: the worksheets it leaves behind
\* are those a View leaves, so the handlers reach the same stores from them.
HandlerConnOutcomes == {0, NSheets}

\* lines 114-120: gs_ok is set only when gs_auth and ensure_sheets return.
connected(conn) == conn = NSheets

\* lines 124-125
local_after_connect(ses, ok) == IF ok THEN ses ELSE init_local_storage(ses)

\* The input sets of the forms.
Names == {"", "Al"}
Usernames == {"", "al"}
Passwords == {"", "pass"}
Goals == {"", "fit"}
\* What is typed into the signup and Add Client forms: at most one of the
\* required fields is left empty.
ClientForms ==
    {f \in [name : Names, username : Usernames, password : Passwords, goal : Goals] :
        Cardinality({k \in {"name", "username", "password"} : f[k] = ""}) <= 1}
\* The coaches the signup form may offer.
SignupCoaches == {"coach1"}
Checklists == {<<TRUE, TRUE, TRUE>>, <<TRUE, FALSE, TRUE>>}
\* The usernames tried at the login, per role chosen.
LoginUsernames(role_choice) ==
    IF role_choice = "Coach" THEN {"coach1"} ELSE {"al", "client1"}
LoginPasswords == {"x", "pass"}
AdminPasswords == {"x", ADMIN_PASS}
RoleChoices == {"Coach", "Client"}
WeekStarts == {1}
Feedbacks == {"ok"}
Uploads == {None, "p.jpg"}
Clock == {"2024-01-05T09:30:00.250000"}

\* str(week_start)
StrOfDate == (1 :> "2024-01-01") @@ (5 :> "2024-01-05") @@ (10 :> "2024-01-10")

\* role_choice.lower()
Lower == [Coach |-> "coach", Client |-> "client"]

NoEvent == [btn |-> "none", form |-> <<>>, msg |-> ""]

\* lines 228-231: the coaches offered by the signup form.
coach_list(ok, rem, ses) ==
    IF Backend(ok, rem, "coaches") = "remote"
    THEN {r["Username"] : r \in {read_sheet(rem, "coaches")[i] :
                                    i \in 1..Len(read_sheet(rem, "coaches"))}}
    ELSE LET l == LocalRead(ses, "local_coaches")
         IN  IF l = <<>> THEN {"coach1"} ELSE {l[i]["Username"] : i \in 1..Len(l)}

\* lines 214-232: the signup form is drawn, and the coaches read, while no
\* one is logged in.
signup_section(ok, rem, r) ==
    IF r = None THEN {Access("read", ok, rem, "coaches")} ELSE {}

\* lines 286-436: the store reads of the dashboard of the role logged in.
dashboard(ok, rem, ses, r, u) ==
    IF r = "admin" THEN {Access("read", ok, rem, t) : t \in Tables}
    ELSE IF r = "coach" THEN
        {Access("read", ok, rem, "clients")}
        \cup (IF get_clients_for_coach(ok, rem, ses, u) # <<>>
              THEN {Access("read", ok, rem, t) : t \in LogTables} ELSE {})
    ELSE IF r = "client" THEN {Access("read", ok, rem, t) : t \in LogTables}
    ELSE {}

\* line 272: the table the login checks when the spreadsheet is not connected.
local_login_table(role_choice) ==
    IF role_choice = "Coach"
    THEN <<[Username |-> "coach1", Password |-> "pass"]>>
    ELSE <<[Username |-> "client1", Password |-> "pass", AssignedCoach |-> "coach1"]>>

\* lines 269-272
login_table(ok, rem, role_choice) ==
    LET sheet_name == IF role_choice = "Coach" THEN "coaches" ELSE "clients"
    IN  IF Backend(ok, rem, sheet_name) = "remote"
        THEN read_sheet(rem, sheet_name)
        ELSE local_login_table(role_choice)

\* lines 273-274: some row has this Username and this Password.
credentials_match(df, username_input, password_input) ==
    \E i \in 1..Len(df) : df[i]["Username"] = username_input
                          /\ df[i]["Password"] = password_input

(***************************************************************************)
(* Initial states.                                                         *)
(***************************************************************************)
\* Before the first execution: the spreadsheet holds the coaches its owner
\* entered (the script never writes that worksheet), the session is empty
\* but for the defaults of lines 107-109.
AppInit ==
    /\ gs_ok = FALSE
    /\ remote = [t \in {"coaches"} |-> << <<"coach1", "pass", "">> >>]
    /\ session = [k \in {} |-> <<>>]
    /\ role = None
    /\ user = None
    /\ admin = None
    /\ rerun_flag = FALSE
    /\ accesses = {}
    /\ event = NoEvent

FilterIdle ==
    /\ entries = <<>>
    /\ start_date = NoDate
    /\ end_date = NoDate
    /\ workout = None
    /\ filtered = <<>>
    /\ called = FALSE

Init == AppInit /\ FilterIdle

FilterInit ==
    /\ AppInit
    /\ entries \in InputLists
    /\ start_date \in DateArgs
    /\ end_date \in DateArgs
    /\ workout \in WorkoutArgs
    /\ filtered = <<>>
    /\ called = FALSE

(***************************************************************************)
(* FilterSpec: one call of apply_filters.                                  *)
(***************************************************************************)
CallFilter ==
    /\ ~called
    /\ filtered' = apply_filters(entries, start_date, end_date, workout)
    /\ called' = TRUE
    /\ UNCHANGED <<entries, start_date, end_date, workout>>
    /\ UNCHANGED appVars

FilterNext == CallFilter

FilterSpec == FilterInit /\ [][FilterNext]_vars

(***************************************************************************)
(* Spec: the interactions.  Every action is a whole execution: the         *)
(* connection (lines 114-126), the handler of the button pressed, and the  *)
(* reads of the dashboard drawn after it.                                  *)
(***************************************************************************)
\* An interaction that presses no button (a widget changed, a page load).
View(conn) ==
    LET ok == connected(conn)
        rem1 == ensure_sheets(remote, conn)
        ses1 == local_after_connect(session, ok)
    IN  /\ ~rerun_flag
        /\ gs_ok' = ok
        /\ remote' = rem1
        /\ session' = ses1
        /\ accesses' = signup_section(ok, rem1, role) \cup dashboard(ok, rem1, ses1, role, user)
        /\ event' = NoEvent
        /\ UNCHANGED <<role, user, admin, rerun_flag>>
        /\ UNCHANGED filterVars

\* lines 131-133, 208-209, 441-442: the flag is cleared and the script runs
\* again, with no button pressed.
safe_rerun(conn) ==
    LET ok == connected(conn)
        rem1 == ensure_sheets(remote, conn)
        ses1 == local_after_connect(session, ok)
    IN  /\ rerun_flag
        /\ rerun_flag' = FALSE
        /\ gs_ok' = ok
        /\ remote' = rem1
        /\ session' = ses1
        /\ accesses' = signup_section(ok, rem1, role) \cup dashboard(ok, rem1, ses1, role, user)
        /\ event' = [btn |-> "rerun", form |-> <<>>, msg |-> ""]
        /\ UNCHANGED <<role, user, admin>>
        /\ UNCHANGED filterVars

\* Mutant: the row is appended before the fields are checked.
SignupAppendsFirst(conn, name, username, password, goal, checks, coach) ==
    LET ok == connected(conn)
        rem1 == ensure_sheets(remote, conn)
        ses1 == local_after_connect(session, ok)
        filled == Truthy(name) /\ Truthy(username) /\ Truthy(password)
        ticked == checks[1] /\ checks[2] /\ checks[3]
        toRemote == Backend(ok, rem1, "clients") = "remote"
        row == <<name, coach, username, password, goal, "">>
        rec == [Name |-> name, AssignedCoach |-> coach, Username |-> username,
                Password |-> password, Goal |-> goal, ProfileImage |-> ""]
    IN  /\ ~rerun_flag
        /\ role = None
        /\ coach \in coach_list(ok, rem1, ses1)
        /\ RowsStored < MaxRows
        /\ gs_ok' = ok
        /\ remote' = IF toRemote THEN append_row(rem1, "clients", row) ELSE rem1
        /\ session' = IF ~toRemote THEN LocalAppend(ses1, "local_clients", rec) ELSE ses1
        /\ accesses' = {Access("read", ok, rem1, "coaches"), Access("append", ok, rem1, "clients")}
        /\ event' = [btn |-> "signup",
                     form |-> [name |-> name, username |-> username, password |-> password,
                               goal |-> goal, checks |-> checks, coach |-> coach],
                     msg |-> IF ~filled THEN "Please fill in all fields"
                             ELSE IF ~ticked THEN "Please complete the checklist"
                             ELSE "registered"]
        /\ UNCHANGED <<role, user, admin, rerun_flag>>
        /\ UNCHANGED filterVars

\* lines 214-251: the Sign Up button.
Signup(conn, name, username, password, goal, checks, coach) ==
    LET ok == connected(conn)
        rem1 == ensure_sheets(remote, conn)
        ses1 == local_after_connect(session, ok)
        filled == Truthy(name) /\ Truthy(username) /\ Truthy(password)
        ticked == checks[1] /\ checks[2] /\ checks[3]
        accept == filled /\ ticked
        toRemote == Backend(ok, rem1, "clients") = "remote"
        row == <<name, coach, username, password, goal, "">>
        rec == [Name |-> name, AssignedCoach |-> coach, Username |-> username,
                Password |-> password, Goal |-> goal, ProfileImage |-> ""]
    IN  /\ ~rerun_flag
        /\ role = None
        /\ coach \in coach_list(ok, rem1, ses1)
        /\ accept => RowsStored < MaxRows
        /\ gs_ok' = ok
        /\ remote' = IF accept /\ toRemote THEN append_row(rem1, "clients", row) ELSE rem1
        /\ session' = IF accept /\ ~toRemote
                      THEN LocalAppend(ses1, "local_clients", rec) ELSE ses1
        /\ accesses' = {Access("read", ok, rem1, "coaches")}
                       \cup (IF accept THEN {Access("append", ok, rem1, "clients")} ELSE {})
        /\ event' = [btn |-> "signup",
                     form |-> [name |-> name, username |-> username, password |-> password,
                               goal |-> goal, checks |-> checks, coach |-> coach],
                     msg |-> IF ~filled THEN "Please fill in all fields"
                             ELSE IF ~ticked THEN "Please complete the checklist"
                             ELSE "registered"]
        /\ UNCHANGED <<role, user, admin, rerun_flag>>
        /\ UNCHANGED filterVars

\* lines 261-266: the Login button, role Admin.
LoginAdmin(conn, password_input) ==
    LET ok == connected(conn)
        rem1 == ensure_sheets(remote, conn)
        ses1 == local_after_connect(session, ok)
        accept == password_input = ADMIN_PASS
        role1 == IF accept THEN "admin" ELSE role
        user1 == IF accept THEN "admin" ELSE user
    IN  /\ ~rerun_flag
        /\ gs_ok' = ok
        /\ remote' = rem1
        /\ session' = ses1
        /\ role' = role1
        /\ user' = user1
        /\ admin' = IF accept THEN "True" ELSE admin
        /\ accesses' = signup_section(ok, rem1, role) \cup dashboard(ok, rem1, ses1, role1, user1)
        /\ event' = [btn |-> "login",
                     form |-> [role_choice |-> "Admin", password |-> password_input],
                     msg |-> IF accept THEN "Admin logged in" ELSE "Wrong admin password"]
        /\ UNCHANGED rerun_flag
        /\ UNCHANGED filterVars

\* lines 261, 267-278: the Login button, role Coach or Client.
LoginUser(conn, role_choice, username_input, password_input) ==
    LET ok == connected(conn)
        rem1 == ensure_sheets(remote, conn)
        ses1 == local_after_connect(session, ok)
        sheet_name == IF role_choice = "Coach" THEN "coaches" ELSE "clients"
        df == login_table(ok, rem1, role_choice)
        accept == credentials_match(df, username_input, password_input)
        role1 == IF accept THEN Lower[role_choice] ELSE role
        user1 == IF accept THEN username_input ELSE user
    IN  /\ ~rerun_flag
        /\ gs_ok' = ok
        /\ remote' = rem1
        /\ session' = ses1
        /\ role' = role1
        /\ user' = user1
        /\ accesses' = signup_section(ok, rem1, role)
                       \cup (IF Backend(ok, rem1, sheet_name) = "remote"
                             THEN {Access("read", ok, rem1, sheet_name)} ELSE {})
                       \cup dashboard(ok, rem1, ses1, role1, user1)
        /\ event' = [btn |-> "login",
                     form |-> [role_choice |-> role_choice, username |-> username_input,
                               password |-> password_input],
                     msg |-> IF accept THEN "logged in" ELSE "Invalid credentials"]
        /\ UNCHANGED <<admin, rerun_flag>>
        /\ UNCHANGED filterVars

\* lines 308-338: the Add Client button of the coach dashboard.
AddClient(conn, name, username, password, goal) ==
    LET ok == connected(conn)
        rem1 == ensure_sheets(remote, conn)
        ses1 == local_after_connect(session, ok)
        coach_user == user
        accept == Truthy(name) /\ Truthy(username) /\ Truthy(password)
        toRemote == Backend(ok, rem1, "clients") = "remote"
        row == <<name, coach_user, username, password, goal, "">>
        rec == [Name |-> name, AssignedCoach |-> coach_user, Username |-> username,
                Password |-> password, Goal |-> goal, ProfileImage |-> ""]
        rem2 == IF accept /\ toRemote THEN append_row(rem1, "clients", row) ELSE rem1
        ses2 == IF accept /\ ~toRemote THEN LocalAppend(ses1, "local_clients", rec) ELSE ses1
    IN  /\ ~rerun_flag
        /\ role = "coach"
        /\ accept => RowsStored < MaxRows
        /\ gs_ok' = ok
        /\ remote' = rem2
        /\ session' = ses2
        /\ rerun_flag' = accept
        /\ accesses' = (IF accept THEN {Access("append", ok, rem1, "clients")} ELSE {})
                       \cup dashboard(ok, rem2, ses2, role, user)
        /\ event' = [btn |-> "add_client",
                     form |-> [name |-> name, username |-> username, password |-> password,
                               goal |-> goal, coach |-> coach_user],
                     msg |-> IF accept THEN "added" ELSE "Fill in all fields"]
        /\ UNCHANGED <<role, user, admin>>
        /\ UNCHANGED filterVars

\* line 420: os.path.join(UPLOAD_FOLDER, client_user, f"{week_start}_{name}")
image_path(client_user, week_start, uploaded_file) ==
    IF uploaded_file = None THEN ""
    ELSE "uploads/" \o client_user \o "/" \o StrOfDate[week_start] \o "_" \o uploaded_file

\* lines 380-430: the Submit Check-In button of the client dashboard.
SubmitCheckin(conn, week_start, feedback, uploaded_file, ts) ==
    LET ok == connected(conn)
        rem1 == ensure_sheets(remote, conn)
        ses1 == local_after_connect(session, ok)
        client_user == user
        img_path == image_path(client_user, week_start, uploaded_file)
        toRemote == Backend(ok, rem1, "checkins") = "remote"
        row == <<client_user, StrOfDate[week_start], feedback, "Submitted", ts, img_path>>
        rec == [ClientUsername |-> client_user, WeekStartDate |-> StrOfDate[week_start],
                Feedback |-> feedback, Submitted |-> "Submitted", Timestamp |-> ts,
                ImagePath |-> img_path]
    IN  /\ ~rerun_flag
        /\ role = "client"
        /\ RowsStored < MaxRows
        /\ gs_ok' = ok
        /\ remote' = IF toRemote THEN append_row(rem1, "checkins", row) ELSE rem1
        /\ session' = IF ~toRemote THEN LocalAppend(ses1, "local_checkins", rec) ELSE ses1
        /\ rerun_flag' = TRUE
        /\ accesses' = dashboard(ok, rem1, ses1, role, user)
                       \cup {Access("append", ok, rem1, "checkins")}
        /\ event' = [btn |-> "checkin",
                     form |-> [week_start |-> week_start, feedback |-> feedback,
                               uploaded_file |-> uploaded_file, ts |-> ts,
                               client |-> client_user],
                     msg |-> "Check-in submitted!"]
        /\ UNCHANGED <<role, user, admin>>
        /\ UNCHANGED filterVars

Next ==
    \/ \E conn \in ConnOutcomes : View(conn)
    \/ \E conn \in ConnOutcomes : safe_rerun(conn)
    \/ \E conn \in HandlerConnOutcomes, f \in ClientForms, checks \in Checklists,
          coach \in SignupCoaches :
            Signup(conn, f.name, f.username, f.password, f.goal, checks, coach)
    \/ \E conn \in HandlerConnOutcomes, password_input \in AdminPasswords :
            LoginAdmin(conn, password_input)
    \/ \E conn \in HandlerConnOutcomes, role_choice \in RoleChoices,
          password_input \in LoginPasswords :
            \E username_input \in LoginUsernames(role_choice) :
                LoginUser(conn, role_choice, username_input, password_input)
    \/ \E conn \in HandlerConnOutcomes, f \in ClientForms :
            AddClient(conn, f.name, f.username, f.password, f.goal)
    \/ \E conn \in HandlerConnOutcomes, week_start \in WeekStarts,
          uploaded_file \in Uploads, ts \in Clock, feedback \in Feedbacks :
            SubmitCheckin(conn, week_start, feedback, uploaded_file, ts)

Spec == Init /\ [][Next]_vars

(***************************************************************************)
(* Properties of apply_filters (checked under FilterSpec).                 *)
(***************************************************************************)
\* A field is present when the record has a value for it.
Present(e, k) == Get(e, k) # None /\ Get(e, k) # ""

\* The value of the first present field among Timestamp, Date, WeekStartDate.
EffectiveValue(e) ==
    IF Present(e, "Timestamp") THEN e["Timestamp"]
    ELSE IF Present(e, "Date") THEN e["Date"]
    ELSE IF Present(e, "WeekStartDate") THEN e["WeekStartDate"]
    ELSE None

HasEffectiveDate(e) == EffectiveValue(e) # None /\ CanParse(EffectiveValue(e))

EffectiveDate(e) == DateOf[EffectiveValue(e)]

InSeq(s, e) == \E i \in 1..Len(s) : s[i] = e

InResult(e) == InSeq(filtered, e)

RECURSIVE IsSubseq(_, _)
IsSubseq(s, t) ==
    IF s = <<>> THEN TRUE
    ELSE IF t = <<>> THEN FALSE
    ELSE IF Head(s) = Head(t) THEN IsSubseq(Tail(s), Tail(t))
    ELSE IsSubseq(s, Tail(t))

\* C1: with both bounds given and no workout constraint, a record whose
\* effective date d (the parsed first present field among Timestamp, Date,
\* WeekStartDate) satisfies start_date <= d <= end_date is in the result, and
\* one with d < start_date or d > end_date is not.
C1_DateRange ==
    (called /\ workout = None /\ start_date # NoDate /\ end_date # NoDate) =>
        \A i \in 1..Len(entries) :
            HasEffectiveDate(entries[i]) =>
                LET d == EffectiveDate(entries[i])
                IN  /\ (start_date <= d /\ d <= end_date) => InResult(entries[i])
                    /\ (d < start_date \/ d > end_date) => ~InResult(entries[i])

\* A call with both bounds that keeps a record dated on the lower bound by
\* its Timestamp and drops one dated after the upper bound by its Date.
C1_Witness ==
    /\ called /\ workout = None /\ start_date = 5 /\ end_date = 5
    /\ Len(entries) = 2
    /\ entries[1].Timestamp = "2024-01-05T09:30:00.250000"
    /\ ~Present(entries[2], "Timestamp") /\ entries[2].Date = "2024-01-10"
    /\ filtered = <<entries[1]>>

\* C2: a record with none of Timestamp, Date, WeekStartDate, or whose first
\* present value does not parse, is in the result whatever the bounds (no
\* workout constraint).
C2_FailOpen ==
    (called /\ workout = None) =>
        \A i \in 1..Len(entries) :
            ~HasEffectiveDate(entries[i]) => InResult(entries[i])

\* A record whose Timestamp does not parse and whose Date lies after the
\* upper bound is kept.
C2_Witness ==
    /\ called /\ workout = None /\ end_date = 5
    /\ Len(entries) = 1
    /\ entries[1].Timestamp = "n/a" /\ entries[1].Date = "2024-01-10"
    /\ filtered = entries

\* C3 as stated: "All" (or no value) removes nothing, and for any other
\* value every record whose Workout is not that value is excluded.
C3_Original ==
    called =>
        /\ workout \in {None, "", "All"} =>
               filtered = apply_filters(entries, start_date, end_date, None)
        /\ workout \notin {None, "", "All"} =>
               \A i \in 1..Len(entries) :
                   Get(entries[i], "Workout") # workout => ~InResult(entries[i])

\* C3 (amended): "All", an empty value or no value removes nothing; for any
\* other value every record that has a Workout different from it is excluded,
\* and a record with no Workout is kept or dropped by its date alone.
C3_ExactMatch ==
    called =>
        /\ (workout \in {None, "", "All"}) =>
               filtered = apply_filters(entries, start_date, end_date, None)
        /\ (workout \notin {None, "", "All"}) =>
               \A i \in 1..Len(entries) :
                   LET w == Get(entries[i], "Workout")
                   IN  /\ (Truthy(w) /\ w # workout) => ~InResult(entries[i])
                       /\ ~Truthy(w) =>
                              (InResult(entries[i]) <=>
                               InSeq(apply_filters(entries, start_date, end_date, None),
                                     entries[i]))

\* A call with workout "Squat" that keeps a record without Workout and drops
\* a record of the workout "Run".
C3_Witness ==
    /\ called /\ workout = "Squat"
    /\ Len(entries) = 2
    /\ entries[1].Workout = None /\ entries[2].Workout = "Run"
    /\ filtered = <<entries[1]>>

\* C4: with no start date, end date and workout the result is the input; in
\* every call the result is a subsequence of the input, in input order.
C4_OrderKept ==
    called =>
        /\ (start_date = NoDate /\ end_date = NoDate /\ workout = None) =>
               filtered = entries
        /\ IsSubseq(filtered, entries)

\* A call without constraints on two different records.
C4_Witness ==
    /\ called /\ start_date = NoDate /\ end_date = NoDate /\ workout = None
    /\ Len(entries) = 2 /\ entries[1] # entries[2]
    /\ filtered = entries

(***************************************************************************)
(* Properties of the application (checked under Spec).                     *)
(***************************************************************************)
\* The rows of a table, none when the table does not exist yet.
Rows(f, k) == IF k \in DOMAIN f THEN f[k] ELSE <<>>

Count(s, e) == Cardinality({i \in 1..Len(s) : s[i] = e})

\* b is a, or a with one row added at its end.
Extends(a, b) == b = a \/ (Len(b) = Len(a) + 1 /\ SubSeq(b, 1, Len(a)) = a)

\* The table a read of table t goes to in an execution with this gs_ok.
StoredTable(ok, rem, ses, t) ==
    IF ok THEN read_sheet(rem, t) ELSE LocalRead(ses, LocalKey[t])

\* A record as a read gives it back with every field intact: as it is from
\* the session, and with its empty fields blank from the spreadsheet.
AsRead(ok, rec) ==
    IF ok THEN [k \in DOMAIN rec |-> IF rec[k] = "" THEN NaN ELSE rec[k]] ELSE rec

\* The client record a signup or Add Client form supplies.
SuppliedClient(f) ==
    [Name |-> f.name, AssignedCoach |-> f.coach, Username |-> f.username,
     Password |-> f.password, Goal |-> f.goal, ProfileImage |-> ""]

\* The check-in a check-in form supplies.
SuppliedCheckin(f) ==
    [ClientUsername |-> f.client, WeekStartDate |-> StrOfDate[f.week_start],
     Feedback |-> f.feedback, Submitted |-> "Submitted", Timestamp |-> f.ts,
     ImagePath |-> image_path(f.client, f.week_start, f.uploaded_file)]

KnownCoaches == {"coach1"}
KnownClients == {"al", "client1"}

\* C5: an accepted signup or Add Client for coach c adds exactly one
\* occurrence of the supplied record to get_clients_for_coach(c), an accepted
\* check-in of client u adds exactly one occurrence of it to
\* get_client_data(u)["checkins"], and no step removes a record from what
\* either read returns.
C5_AppendThenRead ==
    [][ /\ event'.msg \in {"registered", "added"} =>
              LET r == AsRead(gs_ok', SuppliedClient(event'.form))
                  c == event'.form.coach
              IN  Count(get_clients_for_coach(gs_ok', remote', session', c), r)
                  = Count(get_clients_for_coach(gs_ok', remote, session, c), r) + 1
        /\ event'.msg = "Check-in submitted!" =>
              LET r == AsRead(gs_ok', SuppliedCheckin(event'.form))
                  u == event'.form.client
              IN  Count(get_client_data(gs_ok', remote', session', u)["checkins"], r)
                  = Count(get_client_data(gs_ok', remote, session, u)["checkins"], r) + 1
        /\ (remote' # remote \/ session' # session) =>
              /\ \A ok \in BOOLEAN, c \in KnownCoaches :
                    LET old == get_clients_for_coach(ok, remote, session, c)
                        new == get_clients_for_coach(ok, remote', session', c)
                    IN  \A i \in 1..Len(old) : Count(new, old[i]) >= Count(old, old[i])
              /\ \A ok \in BOOLEAN, u \in KnownClients :
                    LET old == get_client_data(ok, remote, session, u)["checkins"]
                        new == get_client_data(ok, remote', session', u)["checkins"]
                    IN  \A i \in 1..Len(old) : Count(new, old[i]) >= Count(old, old[i])
      ]_vars

\* A signup was just accepted into the spreadsheet, after an earlier append
\* of a different client: the coach's clients hold both, the new one once.
C5_Witness ==
    /\ event.msg = "registered" /\ gs_ok
    /\ Len(get_clients_for_coach(gs_ok, remote, session, "coach1")) = 2
    /\ Count(get_clients_for_coach(gs_ok, remote, session, "coach1"),
             AsRead(gs_ok, SuppliedClient(event.form))) = 1

\* C6 as stated: a Coach or Client login is accepted exactly when the stored
\* table of that role holds a record with the username and password given,
\* and is otherwise rejected as "Invalid credentials".
C6_Original ==
    (event.btn = "login" /\ event.form.role_choice # "Admin") =>
        LET t == IF event.form.role_choice = "Coach" THEN "coaches" ELSE "clients"
            tab == StoredTable(gs_ok, remote, session, t)
            stored == \E i \in 1..Len(tab) :
                          /\ Get(tab[i], "Username") = event.form.username
                          /\ Get(tab[i], "Password") = event.form.password
        IN  /\ event.msg = "logged in" <=> stored
            /\ event.msg # "logged in" => event.msg = "Invalid credentials"

\* C7: every step leaves every table of the spreadsheet and of the session
\* as it was or with one row added at its end, and adds at most one row in
\* all.
C7_AppendOnly ==
    [][ /\ \A t \in Tables :
              /\ Extends(Rows(remote, t), Rows(remote', t))
              /\ Extends(Rows(session, LocalKey[t]), Rows(session', LocalKey[t]))
        /\ Cardinality({t \in Tables : Rows(remote', t) # Rows(remote, t)})
           + Cardinality({t \in Tables :
                 Rows(session', LocalKey[t]) # Rows(session, LocalKey[t])}) <= 1
      ]_vars

\* The session's clients table holds two different rows after a later
\* execution that found the spreadsheet connected.
C7_Witness ==
    /\ Len(Rows(session, "local_clients")) = 2
    /\ session["local_clients"][1] # session["local_clients"][2]
    /\ gs_ok

\* C8 as stated: every row of a log table has the ClientUsername of some
\* record of the clients table (of the same store).
C8_Original ==
    \A ok \in BOOLEAN, t \in LogTables :
        LET log == StoredTable(ok, remote, session, t)
            clients == StoredTable(ok, remote, session, "clients")
        IN  \A i \in 1..Len(log) :
                \E j \in 1..Len(clients) : clients[j]["Username"] = log[i]["ClientUsername"]

\* C9: in an execution that did not connect (gs_ok is False) the six local
\* tables exist before any access and every access is to the session; in one
\* that connected every worksheet exists and every access is to the
\* spreadsheet. No execution uses both stores.
C9_AllOrNothing ==
    /\ (~gs_ok /\ accesses # {}) => LocalKeys \subseteq DOMAIN session
    /\ ~gs_ok => \A a \in accesses : a.backend = "local"
    /\ gs_ok => Tables \subseteq DOMAIN remote
    /\ gs_ok => \A a \in accesses : a.backend = "remote"

\* The admin dashboard read all six tables from the session in an execution
\* whose connection failed, while the spreadsheet has some of its worksheets.
C9_Witness ==
    /\ ~gs_ok /\ role = "admin"
    /\ {a.table : a \in accesses} = Tables
    /\ "clients" \in DOMAIN remote /\ "checkins" \notin DOMAIN remote

\* The form of the latest execution lacks a required field or a tick.
FormRejected(ev) ==
    /\ ev.btn \in {"signup", "add_client"}
    /\ \/ ev.form.name = "" \/ ev.form.username = "" \/ ev.form.password = ""
       \/ (ev.btn = "signup" /\ \E i \in 1..3 : ~ev.form.checks[i])

\* C10: a signup lacking name, username or password or a tick, and an Add
\* Client lacking name, username or password, leave every table, the role
\* and the user unchanged.
C10_NoPartialSubmission ==
    [][ FormRejected(event') =>
            /\ \A t \in Tables :
                  /\ Rows(remote', t) = Rows(remote, t)
                  /\ Rows(session', LocalKey[t]) = Rows(session, LocalKey[t])
            /\ role' = role
            /\ user' = user
      ]_vars

\* A signup without a username was just rejected while a client is stored.
C10_Witness ==
    /\ event.btn = "signup" /\ event.form.username = ""
    /\ event.msg = "Please fill in all fields"
    /\ RowsStored >= 1

\* C11 as stated: client usernames are unique.  After any sequence of signup
\* and Add Client operations no two records of the clients table, of the
\* spreadsheet or of the session, have the same Username.
C11_Original ==
    \A ok \in BOOLEAN :
        LET tab == StoredTable(ok, remote, session, "clients")
        IN  \A i, j \in 1..Len(tab) :
                Get(tab[i], "Username") = Get(tab[j], "Username") => i = j

=============================================================================
